---- MODULE Spec2Model ----
(***************************************************************************)
(* State-machine model of the diary web application shapediary_app.py:     *)
(* the Diary Store (users, posts), the static/ image directory, the        *)
(* browser sessions, and one action per HTTP route handler.                *)
(*                                                                         *)
(*                                                                         *)
(* Each handler is a function from the state and the request to a result:  *)
(* the response status and the stored data it leaves.  The action of a     *)
(* route applies that result atomically (the spec's "single request at a   *)
(* time" assumption).  newuser is given in two steps, the SELECT and the   *)
(* INSERT, for the behaviours where two registrations interleave.          *)
(***************************************************************************)
EXTENDS Integers, Sequences, FiniteSets, TLC

\* ------------------------------------------------------------- bounds
\* User ids are 1..MaxUsers, post ids 1..MaxPosts: the serial primary keys
\* of the PostgreSQL store, never reused (an INSERT that fails may also burn
\* a key; the gap it leaves is not modelled).  The handlers that INSERT are
\* disabled once the keys run out.
MaxUsers == 2
MaxPosts == 2

\* Browser sessions (cookie jars) that issue requests.
Clients == {"c1", "c2"}
\* Form values a request may carry; "" is an empty field, NoField a form
\* without that key (request.form.get returns None).
Usernames == {"alice", "bob"}
Passwords == {"hunter2", "wrong"}
NoField == "None"
\* Salts werkzeug may draw for a password hash.
Salts == {"s1"}
\* Diary texts, as sequences of characters.
Contents == {<<"g">>, <<"b">>}
\* Python's None for a content value (request.form.get on a request without
\* a form, or a missing form key).
NoContent == <<"None">>
\* Images the external model may return for one prompt.
Variants == {"v1"}

\* ------------------------------------------------------------- lexicon
\* word_dict: word -> category, filled from data/feelings.csv when the
\* module is loaded and never written again.
VARIABLE word_dict

\* A small sample of data/feelings.csv, the lexicon of the running diary.
SampleLexicon ==
    (<<"g">> :> "positive") @@ (<<"b">> :> "negative") @@ (<<"g", "g">> :> "positive")

\* Python's `word in text` for strings: substring containment.
Contains(word, text) ==
    \E i \in 1..(Len(text) - Len(word) + 1) :
        SubSeq(text, i, i + Len(word) - 1) = word

\* ------------------------------------------------------------- floats
\* A float in [0,1] is modelled by its correctly rounded multiple of
\* 1/Scale (round half to even), an IEEE-754 division at reduced precision.
Scale == 2^20

FloatDiv(a, b) ==
    LET q == (a * Scale) \div b
        r == (a * Scale) % b
    IN  IF 2 * r > b \/ (2 * r = b /\ q % 2 = 1) THEN q + 1 ELSE q

\* No score computed yet.
NoScore == 0 - 1

\* The literals 0.5, 0.7 and 0.4 of the source.
Float05 == FloatDiv(1, 2)
Float07 == FloatDiv(7, 10)
Float04 == FloatDiv(4, 10)

\* ------------------------------------------------------------- scoring
\* A scorer that counts every occurrence of a word.
analyze_sentiment_occurrences(text) ==
    LET hits(w) == Cardinality({i \in 1..Len(text) :
                       i + Len(w) - 1 <= Len(text)
                       /\ SubSeq(text, i, i + Len(w) - 1) = w})
        sum[ws \in SUBSET DOMAIN word_dict] ==
            IF ws = {} THEN 0
            ELSE LET w == CHOOSE x \in ws : TRUE IN hits(w) + sum[ws \ {w}]
        pos_count == sum[{w \in DOMAIN word_dict : word_dict[w] = "positive"}]
        neg_count == sum[{w \in DOMAIN word_dict : word_dict[w] # "positive"}]
        total == pos_count + neg_count
    IN  IF total = 0 THEN Float05 ELSE FloatDiv(pos_count, total)

analyze_sentiment(text) ==
    LET pos_count == Cardinality({w \in DOMAIN word_dict :
                         Contains(w, text) /\ word_dict[w] = "positive"})
        neg_count == Cardinality({w \in DOMAIN word_dict :
                         Contains(w, text) /\ word_dict[w] # "positive"})
        total == pos_count + neg_count
    IN  IF total = 0 THEN Float05 ELSE FloatDiv(pos_count, total)

PositivePrompt == "heart"
NegativePrompt == "star"
NeutralPrompt == "circle"

\* A prompt generator whose thresholds are exclusive.
generate_prompt_strict(sentiment_score) ==
    IF sentiment_score > Float07 THEN PositivePrompt
    ELSE IF sentiment_score > Float04 THEN NeutralPrompt
    ELSE NegativePrompt

generate_prompt(sentiment_score) ==
    LET sentiment == IF sentiment_score >= Float07 THEN "positive"
                     ELSE IF sentiment_score >= Float04 THEN "neutral"
                     ELSE "negative"
    IN  IF sentiment = "positive" THEN PositivePrompt
        ELSE IF sentiment = "negative" THEN NegativePrompt
        ELSE NeutralPrompt

\* The "no image" result of generate_image (None).
NoBytes == [prompt |-> "", variant |-> ""]

\* generate_image: what the external call does is the input `outcome`: it
\* raises ("fail"), which line 126 turns into None, or it returns one of the
\* images the model can draw for the prompt.
generate_image(prompt, outcome) ==
    IF outcome = "fail" THEN NoBytes ELSE [prompt |-> prompt, variant |-> outcome]

\* ------------------------------------------------------------- passwords
\* pbkdf2 as an ideal salted hash: the digest determines salt and password.
generate_password_hash(password, salt) ==
    [method |-> "pbkdf2:sha256", salt |-> salt, digest |-> <<salt, password>>]

\* A check that accepts every password.
check_password_hash_any(pwhash, password) == TRUE

check_password_hash(pwhash, password) ==
    pwhash.digest = <<pwhash.salt, password>>

\* ------------------------------------------------------------- files
\* Names in static/: "{uid}_tmp.png" and "{uid}_{pid}.png".
TmpPath(uid) == [uid |-> uid, kind |-> "tmp", pid |-> 0]
FinalPath(uid, pid) == [uid |-> uid, kind |-> "post", pid |-> pid]
\* image_path = NULL
NoPath == [uid |-> 0, kind |-> "none", pid |-> 0]

\* A write that never overwrites: an existing name gets a numbered sibling.
WriteFile_fresh(fs, path, bytes) ==
    LET name == IF path \in DOMAIN fs THEN [path EXCEPT !.pid = path.pid + 1] ELSE path
    IN  [p \in (DOMAIN fs) \cup {name} |-> IF p = name THEN bytes ELSE fs[p]]

\* open(path, "wb") and write: creates or truncates, then holds the bytes.
WriteFile(fs, path, bytes) ==
    [p \in (DOMAIN fs) \cup {path} |-> IF p = path THEN bytes ELSE fs[p]]

\* A copy instead of a rename: src stays.
Rename_copy(fs, src, dst) ==
    [p \in (DOMAIN fs) \cup {dst} |-> IF p = dst THEN fs[src] ELSE fs[p]]

\* A rename that loses the file: src disappears, dst is not made.
Rename_lost(fs, src, dst) == [p \in (DOMAIN fs) \ {src} |-> fs[p]]

\* os.rename on POSIX: src disappears, dst is created or replaced.
Rename(fs, src, dst) ==
    [p \in ((DOMAIN fs) \ {src}) \cup {dst} |-> IF p = dst THEN fs[src] ELSE fs[p]]

\* ------------------------------------------------------------- state
VARIABLES
    users,       \* rows of shapediary_user: [id, username, password]
    posts,       \* rows of shapediary_post
    files,       \* static/: path -> bytes
    session,     \* client -> user id stored in its session cookie, 0 if none
    req,         \* client -> its request in flight, if any
    nextUserId,  \* the user id sequence
    nextPostId,  \* the post id sequence; also the creation clock
    scorer_text,    \* a text handed to the scorer on its own
    scorer_score,   \* the score computed for it, or a score handed to the
                    \* prompt generator on its own
    scorer_prompt   \* the prompt derived from that score

vars == <<users, posts, files, session, req, nextUserId, nextPostId,
          word_dict, scorer_text, scorer_score, scorer_prompt>>

\* A client with no request in flight.
Idle == [kind |-> "idle", username |-> "", password |-> ""]

Init ==
    /\ users = {}
    /\ posts = {}
    /\ files = [p \in {} |-> NoBytes]
    /\ session = [c \in Clients |-> 0]
    /\ req = [c \in Clients |-> Idle]
    /\ nextUserId = 1
    /\ nextPostId = 1
    /\ word_dict = SampleLexicon
    /\ scorer_text = NoContent
    /\ scorer_score = NoScore
    /\ scorer_prompt = ""

\* ------------------------------------------------------------- lookups
UserById(id) == {u \in users : u.id = id}
UserByName(username) == {u \in users : u.username = username}
PostById(id) == {p \in posts : p.id = id}

\* A current_user that trusts the cookie without loading the row.
current_user_cookie(c) == session[c]

\* load_user / current_user: the session's user if that row still exists,
\* else the anonymous user (0).
current_user(c) == IF UserById(session[c]) # {} THEN session[c] ELSE 0

\* A Post INSERTed with the draft's path already stored.
NewPost_with_path(content, uid) ==
    [id |-> nextPostId, content |-> content, date_created |-> nextPostId,
     user_id |-> uid, image_path |-> TmpPath(uid)]

\* Post(...) as INSERTed: a fresh id, date_created = now, image_path NULL.
NewPost(content, uid) ==
    [id |-> nextPostId, content |-> content, date_created |-> nextPostId,
     user_id |-> uid, image_path |-> NoPath]

\* ------------------------------------------------------------- results
\* The result of a handler that touches no stored data: the response status
\* and the state as it was.  location is the content a redirect carries in
\* its query string or a page shows.
Same(status) ==
    [status |-> status, location |-> NoContent, users |-> users, posts |-> posts,
     files |-> files, session |-> session, nextUserId |-> nextUserId,
     nextPostId |-> nextPostId]

\* The state a handler's result leaves.
Apply(r) ==
    /\ users' = r.users
    /\ posts' = r.posts
    /\ files' = r.files
    /\ session' = r.session
    /\ nextUserId' = r.nextUserId
    /\ nextPostId' = r.nextPostId
    /\ UNCHANGED <<word_dict, scorer_text, scorer_score, scorer_prompt>>

\* @login_required on an anonymous request: 401, the handler does not run.
Unauthorized == Same("401")

\* ------------------------------------------------------------- pages
\* ORDER BY date_created DESC over a set of rows.
RECURSIVE order_by_date_created_desc(_)
order_by_date_created_desc(rows) ==
    IF rows = {} THEN << >>
    ELSE LET newest == CHOOSE p \in rows :
                          \A q \in rows : q.date_created <= p.date_created
         IN  <<newest>> \o order_by_date_created_desc(rows \ {newest})

\* An index that lists the rows of every user.
all_posts_unfiltered(ps, uid) == order_by_date_created_desc(ps)

\* Line 150: the rows of one user, newest first.
all_posts(ps, uid) ==
    order_by_date_created_desc({p \in ps : p.user_id = uid})

\* Line 155: the stored UTC instant shown in Asia/Tokyo (UTC+9): the same
\* instant with another offset.
jst_date(date_created) == [instant |-> date_created, utcoffset |-> 9]

\* Lines 153-160: what the index page shows for each row.
index_posts(ps, uid) ==
    LET rows == all_posts(ps, uid)
    IN  [i \in 1..Len(rows) |->
            [content |-> rows[i].content, date |-> jst_date(rows[i].date_created),
             image_path |-> rows[i].image_path]]

\* GET /: the user's entries, or the redirect to the login page.
index_result(c) ==
    IF current_user(c) = 0 THEN Same("redirect:login")
    ELSE Same("render:index") @@ [posts_all |-> index_posts(posts, current_user(c))]

index(c) ==
    /\ req[c].kind = "idle"
    /\ Apply(index_result(c))
    /\ UNCHANGED req

\* GET /edit.
edit_result(c) ==
    IF current_user(c) = 0 THEN Unauthorized ELSE Same("render:edit")

edit(c) ==
    /\ req[c].kind = "idle"
    /\ Apply(edit_result(c))
    /\ UNCHANGED req

\* GET /user_delete_confirm.
user_delete_confirm_result(c) ==
    IF current_user(c) = 0 THEN Unauthorized ELSE Same("render:user_delete_confirm")

user_delete_confirm(c) ==
    /\ req[c].kind = "idle"
    /\ Apply(user_delete_confirm_result(c))
    /\ UNCHANGED req

\* ------------------------------------------------------------- newuser
\* Lines 238-243: the error message of a registration, "" if none.
newuser_error(username, password) ==
    IF username \in {"", NoField} THEN "username required"
    ELSE IF password \in {"", NoField} THEN "password required"
    ELSE IF UserByName(username) # {} THEN "username taken"
    ELSE ""

\* A username column without the unique constraint.
UniqueViolation_off(username) == FALSE

\* username = db.Column(..., unique=True): the INSERT of a second row with
\* the same username raises IntegrityError.
UniqueViolation(username) == UserByName(username) # {}

\* Lines 245-251: INSERT and commit, then the login page.
newuser_insert(username, password, salt) ==
    IF UniqueViolation(username)
    THEN Same("500")
    ELSE [Same("render:login") EXCEPT
            !.users = users \cup
                {[id |-> nextUserId, username |-> username,
                  password |-> generate_password_hash(password, salt)]},
            !.nextUserId = nextUserId + 1]

\* POST /newuser in two steps: up to the SELECT of line 242, where an error
\* ends the request with the form and its message ...
newuser_check(c, username, password) ==
    /\ req[c].kind = "idle"
    /\ IF newuser_error(username, password) # ""
       THEN UNCHANGED req
       ELSE /\ nextUserId + Cardinality({d \in Clients : req[d].kind = "newuser"})
                 <= MaxUsers
            /\ req' = [req EXCEPT ![c] = [kind |-> "newuser", username |-> username,
                                          password |-> password]]
    /\ UNCHANGED <<users, posts, files, session, nextUserId, nextPostId,
                   word_dict, scorer_text, scorer_score, scorer_prompt>>

\* ... and from line 245 on.
newuser_commit(c, salt) ==
    /\ req[c].kind = "newuser"
    /\ Apply(newuser_insert(req[c].username, req[c].password, salt))
    /\ req' = [req EXCEPT ![c] = Idle]

\* ------------------------------------------------------------- login
\* POST /login.
login_result(c, username, password) ==
    LET found == UserByName(username)
        user == CHOOSE u \in found : TRUE
    IN  IF found = {} THEN Same("render:login:error")
        ELSE IF password = NoField
        THEN \* check_password_hash(pwhash, None) raises
             Same("500")
        ELSE IF ~check_password_hash(user.password, password)
        THEN Same("render:login:error")
        ELSE [Same("redirect:index") EXCEPT !.session[c] = user.id]

login(c, username, password) ==
    /\ req[c].kind = "idle"
    /\ Apply(login_result(c, username, password))
    /\ UNCHANGED req

\* GET /logout.
logout_result(c) ==
    IF current_user(c) = 0 THEN Unauthorized
    ELSE [Same("redirect:login") EXCEPT !.session[c] = 0]

logout(c) ==
    /\ req[c].kind = "idle"
    /\ Apply(logout_result(c))
    /\ UNCHANGED req

\* ------------------------------------------------------------- posts
\* POST /posts; diary_entry = NoContent is a form without that key.
posts_result(c, diary_entry, action) ==
    IF current_user(c) = 0 THEN Unauthorized
    ELSE IF diary_entry = NoContent THEN Same("400")
    ELSE IF action = "generate"
    THEN [Same("render:redirect_to_newimage") EXCEPT !.location = diary_entry]
    ELSE [Same("redirect:index") EXCEPT
            !.posts = posts \cup {NewPost(diary_entry, current_user(c))},
            !.nextPostId = nextPostId + 1]

posts_route(c, diary_entry, action) ==
    /\ req[c].kind = "idle"
    /\ LET r == posts_result(c, diary_entry, action)
       IN  /\ r.nextPostId <= MaxPosts + 1
           /\ Apply(r)
    /\ UNCHANGED req

\* ------------------------------------------------------------- newimage
\* Lines 172-183: which content is scored, and whether a Post is INSERTed.
\* args_content is read at line 173 and overwritten at line 177 or 179.
\* ok is FALSE where the handler raises: Post.query.get returned None
\* (line 177), or content is None and the column is nullable=False (line 182).
newimage_lookup(args_post_id, args_content, form_content) ==
    IF args_post_id # 0
    THEN IF PostById(args_post_id) = {}
         THEN [ok |-> FALSE, insert |-> FALSE, content |-> NoContent]
         ELSE [ok |-> TRUE, insert |-> FALSE,
               content |-> (CHOOSE p \in PostById(args_post_id) : TRUE).content]
    ELSE [ok |-> form_content # NoContent, insert |-> TRUE, content |-> form_content]

\* Lines 186-188: score, prompt, external call.
newimage_bytes(content, outcome) ==
    generate_image(generate_prompt(analyze_sentiment(content)), outcome)

\* /newimage.
newimage_result(c, args_post_id, args_content, form_content, outcome) ==
    IF current_user(c) = 0 THEN Unauthorized
    ELSE LET l == newimage_lookup(args_post_id, args_content, form_content)
             stored == IF l.insert
                       THEN [Same("") EXCEPT
                               !.posts = posts \cup {NewPost(l.content, current_user(c))},
                               !.nextPostId = nextPostId + 1]
                       ELSE Same("")
             image_bytes == newimage_bytes(l.content, outcome)
         IN  IF ~l.ok THEN Same("500")
             ELSE IF image_bytes = NoBytes
             THEN [stored EXCEPT !.status = "redirect:index:flash"]
             ELSE [stored EXCEPT
                     !.status = "render:newimage",
                     !.location = l.content,
                     !.files = WriteFile(files, TmpPath(current_user(c)), image_bytes)]

newimage(c, args_post_id, args_content, form_content, outcome) ==
    /\ req[c].kind = "idle"
    /\ LET r == newimage_result(c, args_post_id, args_content, form_content, outcome)
       IN  /\ r.nextPostId <= MaxPosts + 1
           /\ Apply(r)
    /\ UNCHANGED req

\* ------------------------------------------------------------- confirm_image
\* A confirm that stores the path also when there is no draft to rename.
confirm_image_result_lenient(c, action, post_id, content) ==
    IF current_user(c) = 0 THEN Unauthorized
    ELSE IF action \in {"", "redo"} \/ PostById(post_id) = {} THEN Same("400")
    ELSE LET post == CHOOSE p \in PostById(post_id) : TRUE
             tmp_path == TmpPath(current_user(c))
             final_path == FinalPath(current_user(c), post.id)
         IN  [Same("redirect:index") EXCEPT
                !.files = IF tmp_path \in DOMAIN files
                          THEN Rename(files, tmp_path, final_path) ELSE files,
                !.posts = (posts \ {post}) \cup
                            {[post EXCEPT !.image_path = final_path]}]

\* POST /confirm_image; action = "" and post_id = 0 are missing form keys.
confirm_image_result(c, action, post_id, content) ==
    IF current_user(c) = 0 THEN Unauthorized
    ELSE IF action = "" THEN Same("400")
    ELSE IF action = "redo"
    THEN IF content = NoContent THEN Same("400")
         ELSE [Same("redirect:newimage") EXCEPT !.location = content]
    ELSE IF post_id = 0 THEN Same("400")
    ELSE IF PostById(post_id) = {} THEN Same("404")
    ELSE LET post == CHOOSE p \in PostById(post_id) : TRUE
             tmp_path == TmpPath(current_user(c))
             final_path == FinalPath(current_user(c), post.id)
         IN  IF tmp_path \notin DOMAIN files
             THEN \* os.rename raises FileNotFoundError
                  Same("500")
             ELSE [Same("redirect:index") EXCEPT
                     !.files = Rename(files, tmp_path, final_path),
                     !.posts = (posts \ {post}) \cup
                                 {[post EXCEPT !.image_path = final_path]}]

confirm_image(c, action, post_id, content) ==
    /\ req[c].kind = "idle"
    /\ Apply(confirm_image_result(c, action, post_id, content))
    /\ UNCHANGED req

\* ------------------------------------------------------------- delete
\* A delete without the ownership check of line 314.
delete_result_any_owner(c, post_id) ==
    IF current_user(c) = 0 THEN Unauthorized
    ELSE IF PostById(post_id) = {} THEN Same("404")
    ELSE [Same("redirect:edit") EXCEPT !.posts = posts \ PostById(post_id)]

\* GET /delete/<post_id>.
delete_result(c, post_id) ==
    IF current_user(c) = 0 THEN Unauthorized
    ELSE IF PostById(post_id) = {} THEN Same("404")
    ELSE LET post == CHOOSE p \in PostById(post_id) : TRUE
         IN  IF post.user_id # current_user(c)
             THEN Same("redirect:edit")
             ELSE [Same("redirect:edit") EXCEPT !.posts = posts \ {post}]

delete(c, post_id) ==
    /\ req[c].kind = "idle"
    /\ Apply(delete_result(c, post_id))
    /\ UNCHANGED req

\* A user_delete without the bulk delete of line 337.
user_delete_result_no_cascade(c) ==
    IF current_user(c) = 0 THEN Unauthorized
    ELSE [Same("redirect:login") EXCEPT
            !.users = {u \in users : u.id # current_user(c)}]

\* POST /user_delete.  The session cookie is left as it is.
user_delete_result(c) ==
    IF current_user(c) = 0 THEN Unauthorized
    ELSE [Same("redirect:login") EXCEPT
            !.posts = {p \in posts : p.user_id # current_user(c)},
            !.users = {u \in users : u.id # current_user(c)}]

user_delete(c) ==
    /\ req[c].kind = "idle"
    /\ Apply(user_delete_result(c))
    /\ UNCHANGED req

\* ------------------------------------------------------------- specification
\* What a request may carry.
UsernameInputs == Usernames \cup {"", NoField}
PasswordInputs == Passwords \cup {"", NoField}
ContentInputs == Contents \cup {NoContent}
PostIdInputs == 0..MaxPosts
ActionInputs == {"confirm", "redo", "other", ""}
PostsActionInputs == {"generate", "plain"}
\* What the external image model may do.
Outcomes == Variants \cup {"fail"}
\* The requests to /newimage: a link with a post id, a form with a content
\* (or without), and the redirect of a redo, its content in the query string.
NewImageRequests ==
    {[post_id |-> p, args_content |-> NoContent, form_content |-> NoContent] :
        p \in 1..MaxPosts}
    \cup {[post_id |-> 0, args_content |-> NoContent, form_content |-> f] :
             f \in ContentInputs}
    \cup {[post_id |-> 0, args_content |-> a, form_content |-> NoContent] :
             a \in Contents}
\* The requests to /confirm_image: a redo with its content, or any other
\* action with its post id.
ConfirmRequests ==
    {[action |-> "redo", post_id |-> 0, content |-> t] : t \in ContentInputs}
    \cup {[action |-> a, post_id |-> p, content |-> NoContent] :
             a \in ActionInputs \ {"redo"}, p \in PostIdInputs}

\* The diary of two registered users, alice (1) and bob (2), before anyone
\* has logged in or written: the state two POST /newuser requests leave
\* (SpecRace reaches it from the empty store).
InitRegistered ==
    /\ users = {[id |-> 1, username |-> "alice",
                 password |-> generate_password_hash("hunter2", "s1")],
                [id |-> 2, username |-> "bob",
                 password |-> generate_password_hash("hunter2", "s1")]}
    /\ posts = {}
    /\ files = [p \in {} |-> NoBytes]
    /\ session = [c \in Clients |-> 0]
    /\ req = [c \in Clients |-> Idle]
    /\ nextUserId = 3
    /\ nextPostId = 1
    /\ word_dict = SampleLexicon
    /\ scorer_text = NoContent
    /\ scorer_score = NoScore
    /\ scorer_prompt = ""

\* One browser, which may log in as either user in turn; every handler runs
\* to its end before the next request.
Browsers == {"c1"}

Next ==
    \/ \E c \in Browsers, username \in UsernameInputs, password \in PasswordInputs :
          login(c, username, password)
    \/ \E c \in Browsers : logout(c)
    \/ \E c \in Browsers, diary_entry \in ContentInputs, action \in PostsActionInputs :
          posts_route(c, diary_entry, action)
    \/ \E c \in Browsers, q \in NewImageRequests, outcome \in Outcomes :
          newimage(c, q.post_id, q.args_content, q.form_content, outcome)
    \/ \E c \in Browsers, q \in ConfirmRequests :
          confirm_image(c, q.action, q.post_id, q.content)
    \/ \E c \in Browsers, post_id \in PostIdInputs : delete(c, post_id)
    \/ \E c \in Browsers : user_delete(c)
    \/ \E c \in Browsers : index(c)
    \/ \E c \in Browsers : edit(c)
    \/ \E c \in Browsers : user_delete_confirm(c)

Spec == InitRegistered /\ [][Next]_vars

\* The account and diary routes from the empty store, for two browsers, with
\* /newuser in two steps so that registrations interleave with each other
\* and with the other routes.
NextRace ==
    \/ \E c \in Clients, username \in UsernameInputs, password \in PasswordInputs :
          newuser_check(c, username, password)
    \/ \E c \in Clients, salt \in Salts : newuser_commit(c, salt)
    \/ \E c \in Clients, username \in UsernameInputs, password \in PasswordInputs :
          login(c, username, password)
    \/ \E c \in Clients : logout(c)
    \/ \E c \in Clients, diary_entry \in ContentInputs, action \in PostsActionInputs :
          posts_route(c, diary_entry, action)
    \/ \E c \in Clients, post_id \in PostIdInputs : delete(c, post_id)
    \/ \E c \in Clients : user_delete(c)
    \/ \E c \in Clients : index(c)
    \/ \E c \in Clients : edit(c)
    \/ \E c \in Clients : user_delete_confirm(c)

SpecRace == Init /\ [][NextRace]_vars

\* ------------------------------------------------------------- draft race
\* /newimage in steps, for two requests of one user that run at the same
\* time: the handler up to the image (lines 172-191), open(image_path, "wb")
\* (line 194), f.write (line 195) and the page (lines 197-202).  Here a file
\* is the sequence of its blocks, so that a write over a longer file shows.
\* An image as the blocks of its PNG file; images differ in length.
Blocks(image_bytes) ==
    LET size == IF image_bytes.prompt = PositivePrompt THEN 2 ELSE 1
    IN  [i \in 1..size |-> [image |-> image_bytes, block |-> i]]

\* A write that appends to what the file holds.
WriteAtStart_append(old, new) == old \o new

\* f.write on a file just opened: the blocks go to offset 0 and replace
\* what is there; blocks beyond them stay.
WriteAtStart(old, new) == new \o SubSeq(old, Len(new) + 1, Len(old))

\* The request of client c after the handler's step `kind`.
InFlight(kind, uid, image_bytes) ==
    [kind |-> kind, username |-> "", password |-> "", uid |-> uid,
     image_bytes |-> image_bytes]

\* Lines 172-191: lookup or INSERT, score, prompt, image; a request that
\* fails ends here, one that got an image goes on to write it.
newimage_generate(c, args_post_id, args_content, form_content, outcome) ==
    /\ req[c].kind \in {"idle", "rendered"}
    /\ LET r == newimage_result(c, args_post_id, args_content, form_content, "fail")
           l == newimage_lookup(args_post_id, args_content, form_content)
           image_bytes == newimage_bytes(l.content, outcome)
       IN  /\ r.nextPostId <= MaxPosts + 1
           /\ Apply(r)
           /\ req' = [req EXCEPT ![c] =
                        IF r.status = "redirect:index:flash" /\ image_bytes # NoBytes
                        THEN InFlight("open", current_user(c), image_bytes)
                        ELSE Idle]

\* Line 194: open(image_path, "wb") creates the file or truncates it.
newimage_open(c) ==
    /\ req[c].kind = "open"
    /\ files' = WriteFile(files, TmpPath(req[c].uid), << >>)
    /\ req' = [req EXCEPT ![c].kind = "write"]
    /\ UNCHANGED <<users, posts, session, nextUserId, nextPostId,
                   word_dict, scorer_text, scorer_score, scorer_prompt>>

\* Line 195 and the page of lines 197-202.
newimage_write(c) ==
    /\ req[c].kind = "write"
    /\ files' = [files EXCEPT ![TmpPath(req[c].uid)] =
                    WriteAtStart(@, Blocks(req[c].image_bytes))]
    /\ req' = [req EXCEPT ![c].kind = "rendered"]
    /\ UNCHANGED <<users, posts, session, nextUserId, nextPostId,
                   word_dict, scorer_text, scorer_score, scorer_prompt>>

NextDraftRace ==
    \/ \E c \in Clients, username \in Usernames, password \in Passwords :
          login(c, username, password)
    \/ \E c \in Clients, q \in NewImageRequests, outcome \in Outcomes :
          newimage_generate(c, q.post_id, q.args_content, q.form_content, outcome)
    \/ \E c \in Clients : newimage_open(c)
    \/ \E c \in Clients : newimage_write(c)

SpecDraftRace == InitRegistered /\ [][NextDraftRace]_vars

\* ------------------------------------------------------------- scoring alone
\* The scorer and the prompt generator on their own, as lines 186-187 call
\* them, for lexicons and texts beyond those of the running diary.
Alphabet == <<"a", "b", "c", "d", "e", "f", "g", "h", "i", "j">>
Letters == {<<Alphabet[i]>> : i \in 1..Len(Alphabet)}

\* Lexicons of one-letter words, the first k letters positive and the rest
\* negative; a lexicon of overlapping words; the sample; the empty one.
Lexicons ==
    {[w \in Letters |->
         IF \E i \in 1..k : w = <<Alphabet[i]>> THEN "positive" ELSE "negative"] :
        k \in 0..Len(Alphabet)}
    \cup {(<<"a", "b">> :> "positive") @@ (<<"b">> :> "negative")
              @@ (<<"a", "a">> :> "positive") @@ (<<"b", "a", "b">> :> "negative"),
          SampleLexicon,
          [w \in {} |-> "negative"]}

\* Texts: the prefixes of the alphabet, and texts with repeated and
\* overlapping words or with no lexicon word at all.
Texts ==
    {SubSeq(Alphabet, 1, n) : n \in 0..Len(Alphabet)}
    \cup {<<"a", "a", "b">>, <<"a", "b", "a", "b">>, <<"g", "g", "g">>,
          <<"b", "b">>, <<"z">>}

\* Scores handed to the prompt generator directly: the thresholds, their
\* neighbours, the ends of [0,1] and values outside it.
ScoreInputs ==
    {0, Scale, Float05, Float04 - 1, Float04, Float04 + 1,
     Float07 - 1, Float07, Float07 + 1, 0 - Scale, 2 * Scale}

InitScore ==
    /\ users = {}
    /\ posts = {}
    /\ files = [p \in {} |-> NoBytes]
    /\ session = [c \in Clients |-> 0]
    /\ req = [c \in Clients |-> Idle]
    /\ nextUserId = 1
    /\ nextPostId = 1
    /\ word_dict \in Lexicons
    /\ \/ scorer_text \in Texts /\ scorer_score = NoScore
       \/ scorer_text = NoContent /\ scorer_score \in ScoreInputs
    /\ scorer_prompt = ""

\* Line 186: sentiment_score = analyze_sentiment(content).
score_text ==
    /\ scorer_text # NoContent
    /\ scorer_score = NoScore
    /\ scorer_score' = analyze_sentiment(scorer_text)
    /\ UNCHANGED <<users, posts, files, session, req, nextUserId, nextPostId,
                   word_dict, scorer_text, scorer_prompt>>

\* Line 187: prompt = generate_prompt(sentiment_score).
derive_prompt ==
    /\ scorer_score # NoScore
    /\ scorer_prompt = ""
    /\ scorer_prompt' = generate_prompt(scorer_score)
    /\ UNCHANGED <<users, posts, files, session, req, nextUserId, nextPostId,
                   word_dict, scorer_text, scorer_score>>

NextScore == score_text \/ derive_prompt

SpecScore == InitScore /\ [][NextScore]_vars

\* ------------------------------------------------------------- properties
\* The user a client's cookie names, if that account exists; stated on the
\* rows, not through current_user.
Authenticated(c) == \E u \in users : u.id = session[c]
\* The temporary draft files of user uid in a directory.
DraftFiles(fs, uid) == {p \in DOMAIN fs : p.kind = "tmp" /\ p.uid = uid}
\* The user ids that occur in rows, cookies or file names.
UserIds == 1..(nextUserId - 1)

\* C1: for an authenticated user u holding a draft and any existing post p, a
\* confirm_image request with action=confirm and post_id=p ends in the
\* redirect to the index and leaves no temporary file at its old path, the
\* permanent file static/{u}_{p}.png with the bytes the draft held, and that
\* path as the Post's image path.
C1_ConfirmPromotesDraft ==
    \A c \in Clients, p \in posts, content \in ContentInputs :
        LET u == session[c]
            r == confirm_image_result(c, "confirm", p.id, content)
        IN  (Authenticated(c) /\ TmpPath(u) \in DOMAIN files) =>
                /\ r.status = "redirect:index"
                /\ TmpPath(u) \notin DOMAIN r.files
                /\ FinalPath(u, p.id) \in DOMAIN r.files
                /\ r.files[FinalPath(u, p.id)] = files[TmpPath(u)]
                /\ {q.image_path : q \in {q \in r.posts : q.id = p.id}}
                       = {FinalPath(u, p.id)}

\* C1 witness: a confirm has acted: a post carries the permanent path of the
\* logged-in user, that file exists and the user's draft is gone.
C1_Witness ==
    \E c \in Clients, p \in posts :
        /\ Authenticated(c)
        /\ p.image_path = FinalPath(session[c], p.id)
        /\ p.image_path \in DOMAIN files
        /\ TmpPath(session[c]) \notin DOMAIN files

\* C2 as claimed: a newimage request whose image generation fails changes
\* no Post, no User and no file, whether it names a post or carries content.
C2_FailureMutatesNothing ==
    [][\A c \in Clients, q \in NewImageRequests :
          newimage(c, q.post_id, q.args_content, q.form_content, "fail")
              => (posts' = posts /\ users' = users /\ files' = files)]_vars

\* C2 amended: a newimage request whose image generation fails leaves every
\* file, every User and every existing Post as it was; naming a post it
\* changes nothing at all, and carrying content it adds exactly the new
\* entry (that content, the session user as owner, no image path), which
\* was stored before the image was requested.
C2_FailureKeepsStoredData ==
    \A c \in Clients, q \in NewImageRequests :
        LET r == newimage_result(c, q.post_id, q.args_content, q.form_content, "fail")
            added == r.posts \ posts
        IN  /\ r.files = files
            /\ r.users = users
            /\ posts \subseteq r.posts
            /\ IF Authenticated(c) /\ q.post_id = 0 /\ q.form_content # NoContent
               THEN /\ r.status = "redirect:index:flash"
                    /\ Cardinality(added) = 1
                    /\ \A n \in added :
                          /\ n.id = nextPostId
                          /\ n.content = q.form_content
                          /\ n.user_id = session[c]
                          /\ n.image_path = NoPath
               ELSE added = {}

\* C2 witness: a logged-in user with an entry that has no image and no
\* draft file, as a failed generation for new content leaves it.
C2_Witness ==
    \E c \in Clients, p \in posts :
        /\ Authenticated(c)
        /\ p.user_id = session[c]
        /\ p.image_path = NoPath
        /\ TmpPath(session[c]) \notin DOMAIN files

\* C3 as claimed: from Drafted, a redo carrying content t redirects to
\* /newimage with t, and the request the browser then makes (t in the query
\* string, no form, no post id) scores t and, when the image call succeeds,
\* renders the draft page with the user's temporary file holding the image
\* generated for t.
C3_RedoRegenerates ==
    \A c \in Clients, t \in Contents, v \in Variants :
        LET u == session[c]
            redo == confirm_image_result(c, "redo", 0, t)
            again == newimage_result(c, 0, redo.location, NoContent, v)
        IN  (Authenticated(c) /\ TmpPath(u) \in DOMAIN files) =>
                /\ redo.status = "redirect:newimage"
                /\ redo.location = t
                /\ again.status = "render:newimage"
                /\ again.files[TmpPath(u)] = newimage_bytes(t, v)

\* C4: every user has at most one temporary draft file, and a user who holds
\* one holds exactly one after any further newimage request (a generation
\* for a post or for new content, or the request a redo redirects to).
C4_OneDraftPerUser ==
    /\ \A u \in UserIds : Cardinality(DraftFiles(files, u)) <= 1
    /\ \A c \in Clients, q \in NewImageRequests, o \in Outcomes :
          LET r == newimage_result(c, q.post_id, q.args_content, q.form_content, o)
          IN  (Authenticated(c) /\ DraftFiles(files, session[c]) # {}) =>
                  Cardinality(DraftFiles(r.files, session[c])) = 1

\* C4 witness: a user who drafted, confirmed and drafted again: a permanent
\* file and a draft file of the same user.
C4_Witness ==
    \E u \in UserIds :
        /\ TmpPath(u) \in DOMAIN files
        /\ \E p \in DOMAIN files : p.kind = "post" /\ p.uid = u

\* C5: for an authenticated user, a delete request for post p removes p and
\* nothing else when the user owns p; otherwise it leaves every Post as it
\* is and ends in the redirect to the edit page.  No User or file changes.
C5_DeleteOwnerOnly ==
    \A c \in Clients, p \in posts :
        LET r == delete_result(c, p.id)
        IN  Authenticated(c) =>
                /\ r.users = users /\ r.files = files
                /\ r.status = "redirect:edit"
                /\ r.posts = IF p.user_id = session[c] THEN posts \ {p} ELSE posts

\* C5 witness: a post has been deleted while every account still exists, and
\* a logged-in user faces a post of another user.
C5_Witness ==
    /\ Cardinality(users) = nextUserId - 1
    /\ Cardinality(posts) < nextPostId - 1
    /\ \E c \in Clients, p \in posts : Authenticated(c) /\ p.user_id # session[c]

\* C6: a user_delete request by user u leaves no Post owned by u and no User
\* u, and every Post and User of any other user exactly as it was: a row of
\* another user is there afterwards if and only if it was there before.
C6_UserDeleteCascades ==
    \A c \in Clients :
        LET u == session[c]
            r == user_delete_result(c)
        IN  Authenticated(c) =>
                /\ r.status = "redirect:login"
                /\ \A p \in r.posts : p.user_id # u
                /\ \A w \in r.users : w.id # u
                /\ \A p \in posts \cup r.posts :
                      p.user_id # u => (p \in posts <=> p \in r.posts)
                /\ \A w \in users \cup r.users :
                      w.id # u => (w \in users <=> w \in r.users)

\* C6 witness: an account and a post are gone while another user's post and
\* account remain.
C6_Witness ==
    /\ Cardinality(users) < nextUserId - 1
    /\ Cardinality(posts) < nextPostId - 1
    /\ \E p \in posts : \E w \in users : w.id = p.user_id

\* C7 as claimed: every Post with an image path has the path
\* static/{o}_{p}.png of its own owner o and its own id p.
C7_ImagePathNamesOwner ==
    \A p \in posts :
        p.image_path # NoPath => p.image_path = FinalPath(p.user_id, p.id)

\* C8: a request without an authenticated session (never logged in, logged
\* out, or the account deleted) to a protected route (newimage,
\* confirm_image, posts, delete, user_delete, logout, edit,
\* user_delete_confirm) is answered 401 and changes no Post, no User and no
\* file.
C8_AnonymousChangesNothing ==
    \A c \in Clients :
        ~Authenticated(c) =>
            \A r \in
                {newimage_result(c, q.post_id, q.args_content, q.form_content, o) :
                    q \in NewImageRequests, o \in Outcomes}
                \cup {confirm_image_result(c, q.action, q.post_id, q.content) :
                        q \in ConfirmRequests}
                \cup {posts_result(c, d, a) : d \in ContentInputs, a \in PostsActionInputs}
                \cup {delete_result(c, p) : p \in PostIdInputs}
                \cup {user_delete_result(c), logout_result(c), edit_result(c),
                      user_delete_confirm_result(c)} :
                /\ r.status = "401"
                /\ r.posts = posts /\ r.users = users /\ r.files = files

\* C8 witness: a browser whose cookie names a deleted account, while another
\* user's account, post and image file exist.
C8_Witness ==
    \E c \in Clients :
        /\ session[c] # 0
        /\ ~Authenticated(c)
        /\ users # {} /\ posts # {} /\ DOMAIN files # {}

\* No two User records share a username.
UsernamesUnique == \A u, w \in users : u.username = w.username => u = w

\* A User record made from a non-empty username and a non-empty password.
WellFormedUser(u) ==
    /\ u.username \notin {"", NoField}
    /\ \A salt \in Salts :
          u.password \notin {generate_password_hash("", salt),
                             generate_password_hash(NoField, salt)}

\* C9: in every state no two User records share a username, and every step
\* that creates a User record creates one record, with a non-empty username
\* that no existing record has and a non-empty password, and keeps the
\* others; so a registration with an empty field or a registered username
\* creates none, also when registrations interleave.
C9_UsernamesUnique ==
    /\ []UsernamesUnique
    /\ [][(users' \ users) # {} =>
             /\ users \subseteq users'
             /\ Cardinality(users' \ users) = 1
             /\ \A n \in users' \ users :
                   /\ WellFormedUser(n)
                   /\ \A w \in users : w.username # n.username]_vars

\* C9 witness: a registration is between its SELECT and its INSERT, and its
\* username has been registered by another request meanwhile.
C9_Witness ==
    \E c \in Clients :
        req[c].kind = "newuser" /\ UserByName(req[c].username) # {}

Shown(p) ==
    [content |-> p.content, date |-> jst_date(p.date_created),
     image_path |-> p.image_path]

\* C11: for an authenticated user u the index lists exactly the Posts owned
\* by u, one line each and none of another user, newest first; and after a
\* text-only create with content d by u, the listing has one more line, the
\* newest, with content d.
C11_ListOwnNewestFirst ==
    \A c \in Clients :
        LET u == session[c]
            own == {p \in posts : p.user_id = u}
            l == index_result(c).posts_all
        IN  Authenticated(c) =>
                /\ index_result(c).status = "render:index"
                /\ Len(l) = Cardinality(own)
                /\ \A p \in own : \E i \in 1..Len(l) : l[i] = Shown(p)
                /\ \A i \in 1..Len(l) : \E p \in own : l[i] = Shown(p)
                /\ \A i, j \in 1..Len(l) :
                      i < j => l[i].date.instant >= l[j].date.instant
                /\ \A d \in Contents :
                      LET r == posts_result(c, d, "plain")
                          after == index_posts(r.posts, u)
                      IN  /\ r.status = "redirect:index"
                          /\ Len(after) = Len(l) + 1
                          /\ after[1].content = d
                          /\ after[1].image_path = NoPath

\* C11 witness: a logged-in user owns an entry made by a text-only create
\* while an entry of another user exists.
C11_Witness ==
    \E c \in Clients, p, q \in posts :
        /\ Authenticated(c)
        /\ p.user_id = session[c]
        /\ q.user_id # session[c]

\* A word occurs in a text at least once, at some position.
Occurs(w, t) == \E i, j \in 1..Len(t) : SubSeq(t, i, j) = w
\* The distinct positive and negative lexicon words that occur in a text.
PositiveHits(t) == {w \in DOMAIN word_dict : word_dict[w] = "positive" /\ Occurs(w, t)}
NegativeHits(t) == {w \in DOMAIN word_dict : word_dict[w] = "negative" /\ Occurs(w, t)}

\* C12: every score has a prompt, one of the three: the positive prompt
\* exactly when score >= 0.7, the neutral one exactly when 0.4 <= score <
\* 0.7, the negative one exactly when score < 0.4; and when the score is
\* the scorer's P/(P+N) for a text, the prompt is the one that the exact
\* comparisons 10*P >= 7*(P+N) and 10*P >= 4*(P+N) select.
C12_PromptBuckets ==
    /\ scorer_score # NoScore =>
          generate_prompt(scorer_score) \in {PositivePrompt, NeutralPrompt, NegativePrompt}
    /\ scorer_prompt # "" =>
          /\ scorer_prompt = PositivePrompt <=> scorer_score >= Float07
          /\ scorer_prompt = NeutralPrompt <=>
                 (Float04 <= scorer_score /\ scorer_score < Float07)
          /\ scorer_prompt = NegativePrompt <=> scorer_score < Float04
          /\ LET P == Cardinality(PositiveHits(scorer_text))
                 total == P + Cardinality(NegativeHits(scorer_text))
             IN  (scorer_text # NoContent /\ total > 0) =>
                     /\ scorer_prompt = PositivePrompt <=> 10 * P >= 7 * total
                     /\ scorer_prompt = NeutralPrompt <=>
                            (10 * P >= 4 * total /\ 10 * P < 7 * total)
                     /\ scorer_prompt = NegativePrompt <=> 10 * P < 4 * total

\* C12 witness: a text with 7 positive and 3 negative words, whose score is
\* the threshold itself, has got the positive prompt.
C12_Witness ==
    /\ scorer_text # NoContent
    /\ Cardinality(PositiveHits(scorer_text)) = 7
    /\ Cardinality(NegativeHits(scorer_text)) = 3
    /\ scorer_prompt = PositivePrompt

\* C13: the score of a text is 0.5 when no lexicon word occurs in it, and
\* otherwise the float nearest to P/(P+N), P and N the numbers of distinct
\* positive and negative lexicon words that occur in it at least once; it
\* lies in [0,1].
C13_ScoreIsRatioOfDistinctHits ==
    (scorer_text # NoContent /\ scorer_score # NoScore) =>
        LET P == Cardinality(PositiveHits(scorer_text))
            N == Cardinality(NegativeHits(scorer_text))
            err == scorer_score * (P + N) - P * Scale
        IN  /\ 0 <= scorer_score /\ scorer_score <= Scale
            /\ (P + N = 0) => scorer_score = Float05
            /\ (P + N > 0) => (2 * err <= P + N /\ 0 - 2 * err <= P + N)
            /\ (P + N > 0 /\ N = 0) => scorer_score = Scale
            /\ (P + N > 0 /\ P = 0) => scorer_score = 0

\* C13 witness: a scored text in which a lexicon word occurs twice, with
\* positive and negative words present.
C13_Witness ==
    /\ scorer_text # NoContent
    /\ scorer_score # NoScore
    /\ PositiveHits(scorer_text) # {} /\ NegativeHits(scorer_text) # {}
    /\ \E w \in DOMAIN word_dict : \E i, j \in 1..Len(scorer_text) :
          /\ i < j
          /\ j + Len(w) - 1 <= Len(scorer_text)
          /\ SubSeq(scorer_text, i, i + Len(w) - 1) = w
          /\ SubSeq(scorer_text, j, j + Len(w) - 1) = w

\* C14 as claimed: a confirm_image request whose action is not "confirm"
\* changes no Post's image path and renames no file.
C14_OnlyConfirmPromotes ==
    \A c \in Clients, q \in ConfirmRequests :
        LET r == confirm_image_result(c, q.action, q.post_id, q.content)
        IN  q.action # "confirm" => (r.posts = posts /\ r.files = files)

\* C15: a confirm for an existing post by a user who has no temporary file
\* ends in the unhandled error of os.rename (a 500), and a confirm without
\* a temporary file, whatever post id it carries, leaves every Post (so
\* every image path) and every file as it was.
C15_ConfirmWithoutDraftFails ==
    \A c \in Clients, post_id \in PostIdInputs :
        LET r == confirm_image_result(c, "confirm", post_id, NoContent)
        IN  (Authenticated(c) /\ TmpPath(session[c]) \notin DOMAIN files) =>
                /\ PostById(post_id) # {} => r.status = "500"
                /\ r.status \in {"500", "404", "400"}
                /\ r.posts = posts
                /\ r.files = files

\* C15 witness: a logged-in user who has confirmed a draft, so that the
\* temporary file is gone while the post and its permanent file exist.
C15_Witness ==
    \E c \in Clients, p \in posts :
        /\ Authenticated(c)
        /\ TmpPath(session[c]) \notin DOMAIN files
        /\ p.user_id = session[c]
        /\ p.image_path # NoPath
        /\ p.image_path \in DOMAIN files

\* The other requests of the same user that have rendered a draft page with
\* a different image.
RenderedOthers(c) ==
    {d \in Clients \ {c} : /\ req[d].kind = "rendered"
                            /\ req[d].uid = req[c].uid
                            /\ req[d].image_bytes # req[c].image_bytes}

\* C16 as claimed: when a generate request writes, the user's temporary
\* file holds that request's bytes: the last writer wins.
C16_LastWriterWins ==
    [][\A c \in Clients :
          newimage_write(c) =>
              files'[TmpPath(req[c].uid)] = Blocks(req[c].image_bytes)]_vars

\* C16 amended: when a generate request writes, the user's one temporary
\* file begins with that request's bytes, and is exactly those bytes unless
\* the file held more blocks than the image has (another request of the
\* user wrote a longer image after this one opened the file), in which case
\* the rest of the other image stays behind them; the request renders its
\* draft page; and every other request of the user that rendered a draft
\* page with a different image stays rendered while the file no longer is
\* its image.
C16_LastWriterFirstBytes ==
    [][\A c \in Clients :
          newimage_write(c) =>
              LET path == TmpPath(req[c].uid)
                  b == Blocks(req[c].image_bytes)
              IN  /\ DraftFiles(files', req[c].uid) = {path}
                  /\ SubSeq(files'[path], 1, Len(b)) = b
                  /\ Len(files[path]) <= Len(b) => files'[path] = b
                  /\ Len(files[path]) > Len(b) =>
                        files'[path] = b \o SubSeq(files[path], Len(b) + 1, Len(files[path]))
                  /\ req'[c].kind = "rendered"
                  /\ \A d \in RenderedOthers(c) :
                        /\ req'[d] = req[d]
                        /\ files'[path] # Blocks(req[d].image_bytes)]_vars

\* C16 witness: two requests of one user have both rendered a draft page,
\* with different images, and the user's temporary file is the image of
\* one of them.
C16_Witness ==
    \E c \in Clients :
        /\ req[c].kind = "rendered"
        /\ RenderedOthers(c) # {}
        /\ files[TmpPath(req[c].uid)] = Blocks(req[c].image_bytes)

\* C17 as claimed: the file at a Post's image path is an image generated
\* from the prompt derived from that Post's own content.
C17_ImageMatchesContent ==
    \A p \in posts :
        (p.image_path # NoPath /\ p.image_path \in DOMAIN files) =>
            files[p.image_path].prompt = generate_prompt(analyze_sentiment(p.content))

\* C18 as claimed: a newimage request naming an existing post renders that
\* post's content only when the session user owns the post.
C18_NewImageReadsOwnPostOnly ==
    \A c \in Clients, p \in posts, o \in Variants :
        LET r == newimage_result(c, p.id, NoContent, NoContent, o)
        IN  (Authenticated(c) /\ r.status = "render:newimage" /\ r.location = p.content)
                => p.user_id = session[c]

\* C19: the image path of every Post, when present, names a file that
\* exists in static/.
C19_ImagePathFileExists ==
    \A p \in posts : p.image_path # NoPath => p.image_path \in DOMAIN files

\* C19 witness: a Post with an image path survives after another Post with
\* a permanent image file has been deleted, leaving its file behind.
C19_Witness ==
    /\ \E p \in posts : p.image_path # NoPath
    /\ \E f \in DOMAIN files :
          f.kind = "post" /\ \A p \in posts : p.image_path # f

====
